---- MODULE Spec2Model ----
(***************************************************************************)
(* Real-time change notification of the task board.                        *)
(*                                                                         *)
(* Server side: the SSE endpoint GET /api/events (app/api/events/route.ts) *)
(* polling the state store (lib/db) and pushing `tasks` / `watcher`        *)
(* snapshots to every open connection.                                     *)
(*                                                                         *)
(* Client side: the session kept by the hook useRealtimeUpdates            *)
(* (hooks/useRealtimeUpdates.ts): one EventSource, reconnection with       *)
(* exponential backoff, the `enabled` switch.                              *)
(*                                                                         *)
(* View model: the task list of the board (components/KanbanBoard.tsx),    *)
(* merged with every pushed snapshot, with the drag in progress and the    *)
(* open detail task.                                                       *)
(***************************************************************************)
EXTENDS Integers, Sequences, FiniteSets, TLC

\* ------------------------------------------------------------------ bounds
NumConns == 2
MaxTasks == 1
MaxClock == 1
MaxInflight == 1
MaxFaults == 1
MaxOverlap == 2
MaxStreams == 2
MaxTimers == 2
MaxBoard == 2
MaxDiff == 2
MaxPosts == 2
MaxJobs == 2

\* ------------------------------------------------------ program constants
maxReconnectAttempts == 10
baseReconnectDelay == 1000
maxReconnectDelay == 30000

Conns == 1..NumConns
TaskIds == 1..MaxTasks
Statuses == {"todo", "done"}
NoProject == 0
TheProject == 1
StreamIds == 1..MaxStreams
TimerIds == 1..MaxTimers
BoardIds == 1..MaxBoard
Posts == 1..MaxPosts
Jobs == 1..MaxJobs

\* ------------------------------------------------------------------ state
VARIABLES
  now,              \* the database clock, NOW()
  rows,             \* table tasks: id -> row
  project,          \* TRUE while the row of TheProject exists in table projects
  watcher,          \* the singleton row of watcher_config
  lastTasksHash,    \* module-level fingerprint of the tasks (route.ts:11)
  lastWatcherHash,  \* module-level fingerprint of the watcher (route.ts:12)
  pc,               \* per connection: position of GET / start()
  isClosed,         \* per connection: isClosed.value
  pollInterval,     \* per connection: TRUE while the setInterval timer is set
  ctrl,             \* per connection: state of the stream controller
  startRead,        \* per connection: the cold-start read, awaited by start()
  inflight,         \* per connection: reads awaited by poll callbacks
  sentT,            \* history: triples of the last tasks event of the connection
  sentW,            \* history: the last watcher event of the connection
  first,            \* history: the first three writes of the connection
  torn,             \* history: an abort signal or cancel() has arrived
  faults,           \* how many rejected reads, aborts, cancels and teardowns so far
  wr,               \* history: what the last handler that ran did
  mounted,          \* client: the hook's effect has run
  enabled,          \* client: the `enabled` option of the current render
  connectionState,  \* client: disconnected, connecting or connected
  eventSourceRef,   \* client: eventSourceRef.current (0 is null)
  reconnectTimeoutRef, \* client: reconnectTimeoutRef.current (0 is null)
  reconnectAttempts,   \* client: reconnectAttempts.current
  es,               \* client: the EventSource objects created so far
  timers,           \* client: the timeouts set so far
  fails,            \* history: transport errors since the last `connected`
  cl,               \* history: what the last client handler did
  tasks,            \* board: the state `tasks`, the list the board shows
  activeId,         \* board: the id of the task being dragged (0 is null)
  detailTask,       \* board: the task of the detail view, if any
  bd,               \* history: what the last handler of the board did
  eq,               \* the last comparison made by tasksAreEqual
  mg,               \* the last merge made by mergeTaskUpdates
  link,             \* board and endpoint: how far the stream of the board is
  patch,            \* board and endpoint: the update call of a drop, in flight
  fetching,         \* board and endpoint: a GET /api/tasks is in flight
  grabbed,          \* history: the status the dragged card was picked up with
  active_task_ids,  \* watcher_config.active_task_ids, parsed
  posts,            \* per POST /api/watcher in flight: what it read
  ledger            \* history: ids started and not ended since, in write order

feedVars == <<link, patch, fetching, grabbed>>
agentVars == <<active_task_ids, posts, ledger>>

boardVars == <<tasks, activeId, detailTask, bd, eq, mg>>
viewVars == <<tasks, activeId, detailTask, bd>>
pureVars == <<eq, mg>>

clientVars == <<mounted, enabled, connectionState, eventSourceRef,
                reconnectTimeoutRef, reconnectAttempts, es, timers, fails, cl>>

serverVars == <<now, rows, project, watcher, lastTasksHash, lastWatcherHash,
                pc, isClosed, pollInterval, ctrl, startRead, inflight, sentT,
                sentW, first, torn, faults, wr>>

vars == <<now, rows, project, watcher, lastTasksHash, lastWatcherHash, pc,
          isClosed, pollInterval, ctrl, startRead, inflight, sentT, sentW,
          first, torn, faults, wr, mounted, enabled, connectionState,
          eventSourceRef, reconnectTimeoutRef, reconnectAttempts, es, timers,
          fails, cl, tasks, activeId, detailTask, bd, eq, mg, link, patch,
          fetching, grabbed, active_task_ids, posts, ledger>>

storeVars == <<now, rows, project, watcher>>
connVars == <<lastTasksHash, lastWatcherHash, pc, isClosed, pollInterval,
              ctrl, startRead, inflight, sentT, sentW, first, torn,
              faults>>

\* ------------------------------------------------------------------ store
AbsentRow == [present |-> FALSE, status |-> "todo", updated_at |-> 0,
              project_id |-> NoProject]

\* The board starts with one task, linked to the project.
InitRow == [present |-> TRUE, status |-> "todo", updated_at |-> 0,
            project_id |-> TheProject]

InitWatcher == [is_running |-> FALSE, updated_at |-> 0]

Present(rs) == {i \in TaskIds : rs[i].present}

TaskOf(rs, i) == [id |-> i, status |-> rs[i].status,
                  updated_at |-> rs[i].updated_at,
                  project_id |-> rs[i].project_id]

\* The present id with the greatest updated_at (ids break a tie).
Newest(rs, S) ==
  CHOOSE i \in S : \A j \in S :
     \/ rs[i].updated_at > rs[j].updated_at
     \/ rs[i].updated_at = rs[j].updated_at /\ i <= j

RECURSIVE OrderDesc(_, _)
OrderDesc(rs, S) ==
  IF S = {} THEN <<>>
  ELSE LET i == Newest(rs, S)
       IN  <<TaskOf(rs, i)>> \o OrderDesc(rs, S \ {i})

\* SELECT ... FROM tasks ORDER BY updated_at DESC
getAllTasks(rs) == OrderDesc(rs, Present(rs))

\* SELECT * FROM watcher_config WHERE id = 'singleton'
getWatcherConfig(w) == w

\* INSERT INTO tasks: created_at and updated_at default to NOW()
createTask(rs, t, i, s, p) ==
  [rs EXCEPT ![i] = [present |-> TRUE, status |-> s, updated_at |-> t,
                     project_id |-> p]]

\* UPDATE tasks SET status = s, updated_at = NOW() WHERE id = i
updateTask(rs, t, i, s) ==
  [rs EXCEPT ![i].status = s, ![i].updated_at = t]

\* DELETE FROM tasks WHERE id = i
deleteTask(rs, i) == [rs EXCEPT ![i] = AbsentRow]

\* UPDATE tasks SET project_id = NULL WHERE project_id = p; DELETE FROM projects
deleteProject(rs, p) ==
  [i \in TaskIds |->
     IF rs[i].present /\ rs[i].project_id = p
       THEN [rs[i] EXCEPT !.project_id = NoProject]
       ELSE rs[i]]

\* UPDATE watcher_config SET is_running = NOT is_running, updated_at = NOW()
toggleWatcher(w, t) == [is_running |-> ~w.is_running, updated_at |-> t]

\* --------------------------------------------------------- change detector
\* The fingerprint '' the module starts with.
EmptyHash == <<>>

\* JSON.stringify: an injective serialisation, one string per value.
hashState(data) == <<data>>

\* tasks.map(t => ({ id, status, updated_at }))
Triples(ts) ==
  [k \in 1..Len(ts) |-> [id |-> ts[k].id, status |-> ts[k].status,
                         updated_at |-> ts[k].updated_at]]

\* Promise.all([getAllTasks(), getWatcherConfig()]): both rows, or a rejection.
ReadOk(rs, w) == [ok |-> TRUE, tasks |-> getAllTasks(rs),
                  watcher |-> getWatcherConfig(w)]
ReadFail == [ok |-> FALSE, tasks |-> <<>>, watcher |-> InitWatcher]
NoRead == ReadFail

\* safeEnqueue without its `if (isClosed.value) return false`.
safeEnqueueUnguarded(closed, ctl) ==
  IF ctl = "readable"
    THEN [ok |-> TRUE, closed |-> closed, attempted |-> TRUE]
    ELSE [ok |-> FALSE, closed |-> TRUE, attempted |-> TRUE]

\* safeEnqueue whose catch forgets `isClosed.value = true`.
safeEnqueueUnmarked(closed, ctl) ==
  IF closed
    THEN [ok |-> FALSE, closed |-> TRUE, attempted |-> FALSE]
    ELSE IF ctl = "readable"
      THEN [ok |-> TRUE, closed |-> FALSE, attempted |-> TRUE]
      ELSE [ok |-> FALSE, closed |-> FALSE, attempted |-> TRUE]

\* safeEnqueue(controller, data, isClosed): the flag after the call, whether
\* controller.enqueue was called, and whether the data was written.
safeEnqueue(closed, ctl) ==
  IF closed
    THEN [ok |-> FALSE, closed |-> TRUE, attempted |-> FALSE]
    ELSE IF ctl = "readable"
      THEN [ok |-> TRUE, closed |-> FALSE, attempted |-> TRUE]
      \* ERR_INVALID_STATE: caught, the connection is marked closed
      ELSE [ok |-> FALSE, closed |-> TRUE, attempted |-> TRUE]

\* The writes of one synchronous run, in order; the run returns at the first
\* safeEnqueue that answers false.
RECURSIVE WriteAll(_, _, _)
WriteAll(st, ctl, evs) ==
  IF evs = <<>> THEN st
  ELSE LET e == safeEnqueue(st.closed, ctl)
           st1 == [closed |-> e.closed,
                   ev |-> IF e.ok THEN Append(st.ev, Head(evs)) ELSE st.ev,
                   attempts |-> st.attempts + (IF e.attempted THEN 1 ELSE 0)]
       IN  IF e.ok THEN WriteAll(st1, ctl, Tail(evs)) ELSE st1

Has(ev, name) == \E k \in 1..Len(ev) : ev[k] = name

NoPayloadT == [has |-> FALSE, data |-> <<>>]
NoPayloadW == [has |-> FALSE, data |-> InitWatcher]

Idle == [kind |-> "none", conn |-> 0, ev |-> <<>>, attempts |-> 0,
         closedBefore |-> FALSE, readOk |-> FALSE]

Log3(log, ev) == SubSeq(log \o ev, 1, IF Len(log) + Len(ev) < 3
                                        THEN Len(log) + Len(ev) ELSE 3)

\* ---------------------------------------------------------- client session
NoStream == [state |-> "closed", en |-> FALSE]
NoTimer == [pending |-> FALSE, delay |-> 0, en |-> FALSE]

ClientIdle == [kind |-> "none", id |-> 0, cb |-> <<>>, delay |-> 0,
               before |-> 0, had |-> {}, parsed |-> TRUE]

\* The session as the handlers see it; cb collects the callbacks they invoke
\* and delay the timeout they set.
Session ==
  [connectionState |-> connectionState, eventSourceRef |-> eventSourceRef,
   reconnectTimeoutRef |-> reconnectTimeoutRef,
   reconnectAttempts |-> reconnectAttempts, es |-> es, timers |-> timers,
   cb |-> <<>>, delay |-> 0, parsed |-> TRUE]

Live(streams) == {s \in StreamIds : streams[s].state # "closed"}
Pending(ts) == {t \in TimerIds : ts[t].pending}

\* The object `new EventSource(...)` / the handle setTimeout returns.
NewStream(streams) ==
  CHOOSE s \in StreamIds \ Live(streams) :
    \A u \in StreamIds \ Live(streams) : s <= u
NewTimer(ts) ==
  CHOOSE t \in TimerIds \ Pending(ts) :
    \A u \in TimerIds \ Pending(ts) : t <= u

RECURSIVE Pow2(_)
Pow2(n) == IF n = 0 THEN 1 ELSE 2 * Pow2(n - 1)

Min(a, b) == IF a < b THEN a ELSE b

\* A backoff that doubles without the 30 s cap.
reconnectDelayUncapped(attempt) == baseReconnectDelay * Pow2(attempt)

\* Math.min(baseReconnectDelay * Math.pow(2, attempt), 30000)
reconnectDelay(attempt) ==
  Min(baseReconnectDelay * Pow2(attempt), maxReconnectDelay)

\* eventSource.close(): on null or on a closed stream it does nothing.
close(streams, s) ==
  IF s = 0 THEN streams ELSE [streams EXCEPT ![s].state = "closed"]

\* clearTimeout(handle): on a timeout that fired it does nothing.
clearTimeout(ts, t) ==
  IF t = 0 THEN ts ELSE [ts EXCEPT ![t].pending = FALSE]

\* connect() that opens the new stream without closing the one it holds.
connectKeepPrior(st, en) ==
  IF ~en THEN st
  ELSE LET s == NewStream(st.es)
       IN  [st EXCEPT !.connectionState = "connecting",
                      !.es = [st.es EXCEPT ![s] = [state |-> "open",
                                                    en |-> en]],
                      !.eventSourceRef = s]

\* connect() of a render whose `enabled` is en.
connect(st, en) ==
  IF ~en THEN st
  ELSE LET prior == close(st.es, st.eventSourceRef)
           s == NewStream(prior)
       IN  [st EXCEPT !.connectionState = "connecting",
                      !.es = [prior EXCEPT ![s] = [state |-> "open",
                                                   en |-> en]],
                      !.eventSourceRef = s]

\* A disconnect() that also starts the attempt count afresh.
disconnectResetting(st) ==
  [st EXCEPT !.timers = clearTimeout(st.timers, st.reconnectTimeoutRef),
             !.reconnectTimeoutRef = 0,
             !.es = close(st.es, st.eventSourceRef),
             !.eventSourceRef = 0,
             !.reconnectAttempts = 0,
             !.connectionState = "disconnected",
             !.cb = Append(st.cb, "onDisconnect")]

\* disconnect()
disconnect(st) ==
  [st EXCEPT !.timers = clearTimeout(st.timers, st.reconnectTimeoutRef),
             !.reconnectTimeoutRef = 0,
             !.es = close(st.es, st.eventSourceRef),
             !.eventSourceRef = 0,
             !.connectionState = "disconnected",
             !.cb = Append(st.cb, "onDisconnect")]

\* A `connected` listener that leaves the attempt counter as it is.
onconnectedNoReset(st, s) ==
  [st EXCEPT !.es = [st.es EXCEPT ![s].state = "greeted"],
             !.connectionState = "connected",
             !.cb = Append(st.cb, "onConnect")]

\* The listener of `connected` of stream s.
onconnected(st, s) ==
  [st EXCEPT !.es = [st.es EXCEPT ![s].state = "greeted"],
             !.reconnectAttempts = 0,
             !.connectionState = "connected",
             !.cb = Append(st.cb, "onConnect")]

\* A listener that hands the payload over without parsing it first.
onmessageUnchecked(st, callback, ok) ==
  [st EXCEPT !.parsed = ok, !.cb = Append(st.cb, callback)]

\* The listener of `tasks` / `watcher`: JSON.parse in a try; a payload that
\* does not parse is logged, one that does goes to the update callback.
onmessage(st, callback, ok) ==
  IF ok THEN [st EXCEPT !.cb = Append(st.cb, callback)]
  ELSE [st EXCEPT !.parsed = FALSE]

\* An onerror that forgets to schedule the reconnect.
onerrorNoRetry(st, s) ==
  [st EXCEPT !.es = close(st.es, s),
             !.connectionState = "disconnected",
             !.cb = Append(st.cb, "onDisconnect")]

\* An onerror that leaves the state of the session as it is.
onerrorStaysConnected(st, s) ==
  LET st1 == [st EXCEPT !.es = close(st.es, s),
                        !.cb = Append(st.cb, "onDisconnect")]
  IN  IF st.reconnectAttempts < maxReconnectAttempts
        THEN LET t == NewTimer(st.timers)
                 delay == reconnectDelay(st.reconnectAttempts)
             IN  [st1 EXCEPT !.reconnectAttempts = st.reconnectAttempts + 1,
                             !.timers = [st.timers EXCEPT ![t] =
                                           [pending |-> TRUE, delay |-> delay,
                                            en |-> st.es[s].en]],
                             !.reconnectTimeoutRef = t,
                             !.delay = delay]
        ELSE st1

\* eventSource.onerror of stream s.
onerror(st, s) ==
  LET st1 == [st EXCEPT !.es = close(st.es, s),
                        !.connectionState = "disconnected",
                        !.cb = Append(st.cb, "onDisconnect")]
  IN  IF st.reconnectAttempts < maxReconnectAttempts
        THEN LET t == NewTimer(st.timers)
                 delay == reconnectDelay(st.reconnectAttempts)
             IN  [st1 EXCEPT !.reconnectAttempts = st.reconnectAttempts + 1,
                             !.timers = [st.timers EXCEPT ![t] =
                                           [pending |-> TRUE, delay |-> delay,
                                            en |-> st.es[s].en]],
                             !.reconnectTimeoutRef = t,
                             !.delay = delay]
        ELSE st1

\* The body of the effect: connect() when enabled, disconnect() otherwise.
effect(st, en) == IF en THEN connect(st, en) ELSE disconnect(st)

\* -------------------------------------------------------------- view model
TaskFields == {"id", "title", "description", "status", "priority", "assignee",
               "due_date", "estimated_hours", "time_spent", "progress",
               "is_blocked", "blocked_reason", "agent_context", "project_id",
               "created_at", "updated_at"}

\* A Task as the endpoint serialises it, and one that differs in every field.
BaseTask ==
  [id |-> 1, title |-> "a", description |-> "", status |-> "todo",
   priority |-> "low", assignee |-> "simon", due_date |-> "",
   estimated_hours |-> 0, time_spent |-> 0, progress |-> 0,
   is_blocked |-> FALSE, blocked_reason |-> "", agent_context |-> "",
   project_id |-> NoProject, created_at |-> 0, updated_at |-> 0]
OtherTask ==
  [id |-> 2, title |-> "b", description |-> "text", status |-> "done",
   priority |-> "high", assignee |-> "agent", due_date |-> "tomorrow",
   estimated_hours |-> 1, time_spent |-> 1, progress |-> 1,
   is_blocked |-> TRUE, blocked_reason |-> "why",
   agent_context |-> "has_context", project_id |-> TheProject,
   created_at |-> 1, updated_at |-> 1]

\* Task t with the fields of D taken from u.
With(t, u, D) == [f \in TaskFields |-> IF f \in D THEN u[f] ELSE t[f]]

Titles == {"a", "b"}
Stamps == {0, 1}

\* The tasks a list can hold for id i, with a title of titles.
TasksOf(i, titles) ==
  {[BaseTask EXCEPT !.id = i, !.status = s, !.title = t, !.updated_at = u] :
     s \in Statuses, t \in titles, u \in Stamps}

\* The lists of tasks with distinct ids.
ListsOver(titles) ==
  UNION {{q \in [1..n -> UNION {TasksOf(i, titles) : i \in BoardIds}] :
            \A j, k \in 1..n : j # k => q[j].id # q[k].id} : n \in 0..MaxBoard}

\* The lists mergeTaskUpdates is applied to.
Lists == ListsOver(Titles)

\* The snapshots a `tasks` event can carry: what the store can hold differs
\* from one snapshot to the next in status and updated_at.
Snapshots == ListsOver({BaseTask.title})

\* tasksAreEqual that also compares updated_at.
tasksAreEqualStamped(a, b) == a = b

\* tasksAreEqual(a, b)
tasksAreEqual(a, b) ==
  /\ a.id = b.id
  /\ a.title = b.title
  /\ a.description = b.description
  /\ a.status = b.status
  /\ a.priority = b.priority
  /\ a.assignee = b.assignee
  /\ a.due_date = b.due_date
  /\ a.estimated_hours = b.estimated_hours
  /\ a.time_spent = b.time_spent
  /\ a.progress = b.progress
  /\ a.is_blocked = b.is_blocked
  /\ a.blocked_reason = b.blocked_reason
  /\ a.project_id = b.project_id
  /\ a.agent_context = b.agent_context

\* list.find(t => t.id === id): the first index, 0 when there is none.
Find(list, id) ==
  IF \E k \in 1..Len(list) : list[k].id = id
    THEN CHOOSE k \in 1..Len(list) :
           list[k].id = id /\ \A j \in 1..(k - 1) : list[j].id # id
    ELSE 0

\* new Map(list.map(t => [t.id, t])).get(id): the last index, 0 when none.
MapGet(list, id) ==
  IF \E k \in 1..Len(list) : list[k].id = id
    THEN CHOOSE k \in 1..Len(list) :
           list[k].id = id /\ \A j \in (k + 1)..Len(list) : list[j].id # id
    ELSE 0

\* A merge that always builds the merged list, also when nothing changed.
mergeTaskUpdatesAlwaysNew(currentTasks, newTasks) ==
  LET from == [k \in 1..Len(newTasks) |->
                 LET j == MapGet(currentTasks, newTasks[k].id)
                 IN  IF j # 0 /\ tasksAreEqual(currentTasks[j], newTasks[k])
                       THEN j ELSE 0]
  IN  [list |-> "merged", from |-> from,
       items |-> [k \in 1..Len(newTasks) |->
                    IF from[k] # 0 THEN currentTasks[from[k]]
                    ELSE newTasks[k]]]

\* A merge that does not look at the lengths.
mergeTaskUpdatesNoLength(currentTasks, newTasks) ==
  LET from == [k \in 1..Len(newTasks) |->
                 LET j == MapGet(currentTasks, newTasks[k].id)
                 IN  IF j # 0 /\ tasksAreEqual(currentTasks[j], newTasks[k])
                       THEN j ELSE 0]
      hasChanges == \E k \in 1..Len(newTasks) : from[k] = 0
  IN  IF hasChanges
        THEN [list |-> "merged", from |-> from,
              items |-> [k \in 1..Len(newTasks) |->
                           IF from[k] # 0 THEN currentTasks[from[k]]
                           ELSE newTasks[k]]]
        ELSE [list |-> "current",
              from |-> [k \in 1..Len(currentTasks) |-> k],
              items |-> currentTasks]

\* A merge that takes every incoming object.
mergeTaskUpdatesReplace(currentTasks, newTasks) ==
  [list |-> "new", from |-> [k \in 1..Len(newTasks) |-> 0],
   items |-> newTasks]

\* mergeTaskUpdates(currentTasks, newTasks): the items of the list returned;
\* list says which list it is (the current one, the new one, or the merged
\* one built by map) and from[k] which object its k-th element is: the
\* current object at that index, or (0) the k-th new object.
mergeTaskUpdates(currentTasks, newTasks) ==
  IF Len(currentTasks) # Len(newTasks)
    THEN [list |-> "new", from |-> [k \in 1..Len(newTasks) |-> 0],
          items |-> newTasks]
    ELSE LET from == [k \in 1..Len(newTasks) |->
                        LET j == MapGet(currentTasks, newTasks[k].id)
                        IN  IF j # 0 /\ tasksAreEqual(currentTasks[j],
                                                      newTasks[k])
                              THEN j ELSE 0]
             hasChanges == \E k \in 1..Len(newTasks) : from[k] = 0
         IN  IF hasChanges
               THEN [list |-> "merged", from |-> from,
                     items |-> [k \in 1..Len(newTasks) |->
                                  IF from[k] # 0 THEN currentTasks[from[k]]
                                  ELSE newTasks[k]]]
               ELSE [list |-> "current",
                     from |-> [k \in 1..Len(currentTasks) |-> k],
                     items |-> currentTasks]

\* handleTasksUpdate passing the snapshot on as it came.
tasksToMergeRemote(currentTasks, newTasks, active) == newTasks

\* handleTasksUpdate: the list handed to the merge; while a task is dragged
\* its incoming copy takes the status the dragged task has locally.
tasksToMerge(currentTasks, newTasks, active) ==
  IF active # 0 /\ Find(currentTasks, active) # 0
    THEN [k \in 1..Len(newTasks) |->
            IF newTasks[k].id = active
              THEN [newTasks[k] EXCEPT
                      !.status = currentTasks[Find(currentTasks, active)].status]
              ELSE newTasks[k]]
    ELSE newTasks

NoDetail == [has |-> FALSE, task |-> BaseTask]

\* A detail view that takes the incoming object whenever the snapshot has one.
reconcileDetailAlways(current, newTasks) ==
  IF ~current.has THEN [detail |-> current, did |-> "none"]
  ELSE LET j == Find(newTasks, current.task.id)
       IN  IF j = 0 THEN [detail |-> current, did |-> "kept"]
           ELSE [detail |-> [has |-> TRUE, task |-> newTasks[j]],
                 did |-> "replaced"]

\* The updater handleTasksUpdate gives setDetailTask.
reconcileDetail(current, newTasks) ==
  IF ~current.has THEN [detail |-> current, did |-> "none"]
  ELSE LET j == Find(newTasks, current.task.id)
       IN  IF j = 0 THEN [detail |-> current, did |-> "kept"]
           ELSE IF tasksAreEqual(current.task, newTasks[j])
             THEN [detail |-> current, did |-> "kept"]
             ELSE [detail |-> [has |-> TRUE, task |-> newTasks[j]],
                   did |-> "replaced"]

NoCall == [issued |-> FALSE, id |-> 0, status |-> "todo"]

\* What the last handler of the board did: kind names it; remote is the
\* status a snapshot gave the dragged task ("none": it held no such task, or
\* nothing was dragged), paths the lists the merge returned for the
\* snapshots of this drag that gave the dragged task another status than the
\* local one, incoming the task of the snapshot with the id of the detail
\* task, detail what became of the detail task, call the update call.
BoardIdle == [kind |-> "none", remote |-> "none", incoming |-> NoDetail,
              detail |-> "none", call |-> NoCall, paths |-> {}]

EqIdle == [a |-> BaseTask, b |-> BaseTask, result |-> TRUE, done |-> FALSE]

MergeIdle == [A |-> <<>>, B |-> <<>>,
              out |-> [list |-> "current", from |-> <<>>, items |-> <<>>],
              done |-> FALSE]

\* ------------------------------------------------- watcher POST requests
NoPost == [pc |-> "idle", action |-> "none", task_id |-> 0, activeIds |-> <<>>]

\* activeIds.includes(id)
includes(ids, id) == \E k \in 1..Len(ids) : ids[k] = id

\* activeIds.filter(x => x !== id)
RECURSIVE without(_, _)
without(ids, id) ==
  IF ids = <<>> THEN <<>>
  ELSE IF Head(ids) = id THEN without(Tail(ids), id)
  ELSE <<Head(ids)>> \o without(Tail(ids), id)

\* start_task: the list it writes, given the list it read.
startTask(ids, id) == IF includes(ids, id) THEN ids ELSE Append(ids, id)

\* end_task: the list it writes, given the list it read.
endTask(ids, id) == without(ids, id)

\* NOW() of a later statement; the clock of the model stops at MaxClock.
Later(t) == IF t < MaxClock THEN t + 1 ELSE t

\* -------------------------------------------------------------------- Init
Init ==
  /\ now = 0
  /\ rows = [i \in TaskIds |-> IF i = 1 THEN InitRow ELSE AbsentRow]
  /\ project = TRUE
  /\ watcher = InitWatcher
  /\ lastTasksHash = EmptyHash
  /\ lastWatcherHash = EmptyHash
  /\ pc = [c \in Conns |-> "idle"]
  /\ isClosed = [c \in Conns |-> FALSE]
  /\ pollInterval = [c \in Conns |-> FALSE]
  /\ ctrl = [c \in Conns |-> "readable"]
  /\ startRead = [c \in Conns |-> NoRead]
  /\ inflight = [c \in Conns |-> <<>>]
  /\ sentT = [c \in Conns |-> NoPayloadT]
  /\ sentW = [c \in Conns |-> NoPayloadW]
  /\ first = [c \in Conns |-> <<>>]
  /\ torn = [c \in Conns |-> FALSE]
  /\ faults = 0
  /\ wr = Idle
  /\ mounted = FALSE
  /\ enabled = TRUE
  /\ connectionState = "disconnected"
  /\ eventSourceRef = 0
  /\ reconnectTimeoutRef = 0
  /\ reconnectAttempts = 0
  /\ es = [s \in StreamIds |-> NoStream]
  /\ timers = [t \in TimerIds |-> NoTimer]
  /\ fails = 0
  /\ cl = ClientIdle
  /\ tasks = <<>>
  /\ activeId = 0
  /\ detailTask = NoDetail
  /\ bd = BoardIdle
  /\ eq = EqIdle
  /\ mg = MergeIdle
  /\ link = "none"
  /\ patch = NoCall
  /\ fetching = FALSE
  /\ grabbed = "todo"
  /\ active_task_ids = <<>>
  /\ posts = [r \in Posts |-> NoPost]
  /\ ledger = {}

\* ----------------------------------------------------------- store actions
CreateTask(i, p) ==
  /\ now < MaxClock
  /\ ~rows[i].present
  /\ p = TheProject => project
  /\ now' = now + 1
  /\ rows' = createTask(rows, now + 1, i, "todo", p)
  /\ wr' = Idle
  /\ UNCHANGED <<project, watcher>>
  /\ UNCHANGED connVars
  /\ UNCHANGED clientVars
  /\ UNCHANGED boardVars
  /\ UNCHANGED feedVars
  /\ UNCHANGED agentVars

UpdateTask(i, s) ==
  /\ now < MaxClock
  /\ rows[i].present
  /\ now' = now + 1
  /\ rows' = updateTask(rows, now + 1, i, s)
  /\ wr' = Idle
  /\ UNCHANGED <<project, watcher>>
  /\ UNCHANGED connVars
  /\ UNCHANGED clientVars
  /\ UNCHANGED boardVars
  /\ UNCHANGED feedVars
  /\ UNCHANGED agentVars

DeleteTask(i) ==
  /\ rows[i].present
  /\ rows' = deleteTask(rows, i)
  /\ wr' = Idle
  /\ UNCHANGED <<now, project, watcher>>
  /\ UNCHANGED connVars
  /\ UNCHANGED clientVars
  /\ UNCHANGED boardVars
  /\ UNCHANGED feedVars
  /\ UNCHANGED agentVars

DeleteProject ==
  /\ project
  /\ project' = FALSE
  /\ rows' = deleteProject(rows, TheProject)
  /\ wr' = Idle
  /\ UNCHANGED <<now, watcher>>
  /\ UNCHANGED connVars
  /\ UNCHANGED clientVars
  /\ UNCHANGED boardVars
  /\ UNCHANGED feedVars
  /\ UNCHANGED agentVars

ToggleWatcher ==
  /\ now < MaxClock
  /\ now' = now + 1
  /\ watcher' = toggleWatcher(watcher, now + 1)
  /\ wr' = Idle
  /\ UNCHANGED <<rows, project>>
  /\ UNCHANGED connVars
  /\ UNCHANGED clientVars
  /\ UNCHANGED boardVars
  /\ UNCHANGED feedVars
  /\ UNCHANGED agentVars

\* ------------------------------------------------------ connection actions
\* What handler `kind` of connection c did, and the flag it found.
Did(kind, c, w, readOk) ==
  [kind |-> kind, conn |-> c, ev |-> w.ev, attempts |-> w.attempts,
   closedBefore |-> isClosed[c], readOk |-> readOk]

Nothing(c) == [closed |-> isClosed[c], ev |-> <<>>, attempts |-> 0]

\* start() leaving out the tasks event of an empty board.
StartEventsNonEmpty(r) ==
  IF r.tasks = <<>> THEN <<"watcher">> ELSE <<"tasks", "watcher">>

\* The events start() writes once its read has returned.
StartEvents(r) == <<"tasks", "watcher">>

\* Whether the poll callback takes the fingerprint cur for a change.
Differs(cur, last) == cur # last

\* A poll callback that sends its heartbeat only when nothing changed.
TickEventsQuietOnly(changedT, changedW) ==
  (IF changedT THEN <<"tasks">> ELSE <<>>)
    \o (IF changedW THEN <<"watcher">> ELSE <<>>)
    \o (IF changedT \/ changedW THEN <<>> ELSE <<"heartbeat">>)

\* A poll callback that sends both snapshots when either changed.
TickEventsTogether(changedT, changedW) ==
  (IF changedT \/ changedW THEN <<"tasks", "watcher">> ELSE <<>>)
    \o <<"heartbeat">>

\* The events a poll callback writes, given what it detected.
TickEvents(changedT, changedW) ==
  (IF changedT THEN <<"tasks">> ELSE <<>>)
    \o (IF changedW THEN <<"watcher">> ELSE <<>>)
    \o <<"heartbeat">>

\* What the client of c holds after the events ev, cut from the read r.
PayloadT(c, ev, r) ==
  IF Has(ev, "tasks") THEN [has |-> TRUE, data |-> Triples(r.tasks)]
  ELSE sentT[c]
PayloadW(c, ev, r) ==
  IF Has(ev, "watcher") THEN [has |-> TRUE, data |-> r.watcher] ELSE sentW[c]

\* A poll callback whose catch treats a rejected read as the end of the stream.
PollBodyFatal(c, r, changedT, changedW) ==
  IF r.ok /\ ~isClosed[c]
    THEN WriteAll(Nothing(c), ctrl[c], TickEvents(changedT, changedW))
    ELSE [closed |-> TRUE, ev |-> <<>>, attempts |-> 0]

\* The poll callback after its read: a rejected read goes to the catch, a
\* closed connection returns, otherwise the events are written in order.
PollBody(c, r, changedT, changedW) ==
  IF r.ok /\ ~isClosed[c]
    THEN WriteAll(Nothing(c), ctrl[c], TickEvents(changedT, changedW))
    ELSE Nothing(c)

\* GET for a request whose signal is already aborted: the 499 response, with
\* no abort listener, no stream and no timer.
Refuse(c) ==
  /\ pc[c] = "idle"
  /\ faults < MaxFaults
  /\ faults' = faults + 1
  /\ pc' = [pc EXCEPT ![c] = "refused"]
  /\ wr' = Did("refuse", c, Nothing(c), FALSE)
  /\ UNCHANGED storeVars
  /\ UNCHANGED clientVars
  /\ UNCHANGED boardVars
  /\ UNCHANGED feedVars
  /\ UNCHANGED agentVars
  /\ UNCHANGED <<lastTasksHash, lastWatcherHash, isClosed, pollInterval, ctrl,
                 startRead, inflight, sentT, sentW, first, torn>>

\* GET: the request arrives; start() writes `connected` and starts its read.
Connect(c, r) ==
  /\ pc[c] = "idle"
  /\ r.ok \/ faults < MaxFaults
  /\ faults' = IF r.ok THEN faults ELSE faults + 1
  /\ LET w == WriteAll(Nothing(c), ctrl[c], <<"connected">>)
         ok == Has(w.ev, "connected")
     IN  /\ isClosed' = [isClosed EXCEPT ![c] = w.closed]
         /\ pc' = [pc EXCEPT ![c] = IF ok THEN "start" ELSE "returned"]
         /\ startRead' = [startRead EXCEPT ![c] = IF ok THEN r ELSE NoRead]
         /\ first' = [first EXCEPT ![c] = Log3(first[c], w.ev)]
         /\ wr' = Did("connect", c, w, r.ok)
  /\ UNCHANGED storeVars
  /\ UNCHANGED clientVars
  /\ UNCHANGED boardVars
  /\ UNCHANGED feedVars
  /\ UNCHANGED agentVars
  /\ UNCHANGED <<lastTasksHash, lastWatcherHash, pollInterval, ctrl, inflight,
                 sentT, sentW, torn>>

\* A start() that goes on to setInterval whatever happened before.
startReturnsNever(c, r, synced) == FALSE

\* Whether start() returns before setInterval: after a safeEnqueue that
\* answered false, or in the catch when the connection is closed.
startReturns(c, r, synced) == IF r.ok THEN ~synced ELSE isClosed[c]

\* start() after `await Promise.all(...)`: the cold-start sync, then setInterval.
StartResume(c) ==
  /\ pc[c] = "start"
  /\ UNCHANGED faults
  /\ LET r == startRead[c]
         w == IF r.ok THEN WriteAll(Nothing(c), ctrl[c], StartEvents(r))
              ELSE Nothing(c)
         synced == r.ok /\ Len(w.ev) = Len(StartEvents(r))
         returned == startReturns(c, r, synced)
     IN  /\ isClosed' = [isClosed EXCEPT ![c] = w.closed]
         /\ lastTasksHash' = IF synced THEN hashState(Triples(r.tasks))
                             ELSE lastTasksHash
         /\ lastWatcherHash' = IF synced THEN hashState(r.watcher)
                               ELSE lastWatcherHash
         /\ pollInterval' = [pollInterval EXCEPT ![c] = ~returned]
         /\ pc' = [pc EXCEPT ![c] = IF returned THEN "returned" ELSE "polling"]
         /\ sentT' = [sentT EXCEPT ![c] = PayloadT(c, w.ev, r)]
         /\ sentW' = [sentW EXCEPT ![c] = PayloadW(c, w.ev, r)]
         /\ first' = [first EXCEPT ![c] = Log3(first[c], w.ev)]
         /\ startRead' = [startRead EXCEPT ![c] = [r EXCEPT !.tasks = <<>>,
                                                   !.watcher = InitWatcher]]
         /\ wr' = Did("start", c, w, r.ok)
  /\ UNCHANGED storeVars
  /\ UNCHANGED clientVars
  /\ UNCHANGED boardVars
  /\ UNCHANGED feedVars
  /\ UNCHANGED agentVars
  /\ UNCHANGED <<ctrl, inflight, torn>>

\* The setInterval timer fires: the callback up to its `await`.
TickFire(c, r) ==
  /\ pollInterval[c]
  /\ IF isClosed[c]
       THEN /\ pollInterval' = [pollInterval EXCEPT ![c] = FALSE]
            /\ UNCHANGED <<inflight, faults>>
            /\ wr' = Did("stop", c, Nothing(c), FALSE)
       ELSE /\ Len(inflight[c]) < MaxInflight
            /\ r.ok \/ faults < MaxFaults
            /\ faults' = IF r.ok THEN faults ELSE faults + 1
            /\ inflight' = [inflight EXCEPT ![c] = Append(@, r)]
            /\ UNCHANGED pollInterval
            /\ wr' = Did("fire", c, Nothing(c), r.ok)
  /\ UNCHANGED storeVars
  /\ UNCHANGED clientVars
  /\ UNCHANGED boardVars
  /\ UNCHANGED feedVars
  /\ UNCHANGED agentVars
  /\ UNCHANGED <<lastTasksHash, lastWatcherHash, pc, isClosed, ctrl, startRead,
                 sentT, sentW, first, torn>>

\* The timer fires again while an earlier callback of the connection still
\* awaits its read: setInterval does not wait for the async callback.
TickOverlap(c, r) ==
  /\ pollInterval[c]
  /\ ~isClosed[c]
  /\ inflight[c] # <<>>
  /\ Len(inflight[c]) < MaxOverlap
  /\ r.ok \/ faults < MaxFaults
  /\ faults' = IF r.ok THEN faults ELSE faults + 1
  /\ inflight' = [inflight EXCEPT ![c] = Append(@, r)]
  /\ wr' = Did("fire", c, Nothing(c), r.ok)
  /\ UNCHANGED storeVars
  /\ UNCHANGED clientVars
  /\ UNCHANGED boardVars
  /\ UNCHANGED feedVars
  /\ UNCHANGED agentVars
  /\ UNCHANGED <<lastTasksHash, lastWatcherHash, pc, isClosed, pollInterval,
                 ctrl, startRead, sentT, sentW, first, torn>>

\* The callback after its `await`: compare, write what changed, heartbeat.
TickResume(c, k) ==
  /\ k \in 1..Len(inflight[c])
  /\ UNCHANGED faults
  /\ LET r == inflight[c][k]
         curT == hashState(Triples(r.tasks))
         curW == hashState(r.watcher)
         changedT == Differs(curT, lastTasksHash)
         changedW == Differs(curW, lastWatcherHash)
         w == PollBody(c, r, changedT, changedW)
     IN  /\ inflight' = [inflight EXCEPT ![c] =
                            SubSeq(@, 1, k - 1) \o SubSeq(@, k + 1, Len(@))]
         /\ isClosed' = [isClosed EXCEPT ![c] = w.closed]
         /\ lastTasksHash' = IF Has(w.ev, "tasks") THEN curT ELSE lastTasksHash
         /\ lastWatcherHash' = IF Has(w.ev, "watcher") THEN curW
                               ELSE lastWatcherHash
         /\ sentT' = [sentT EXCEPT ![c] = PayloadT(c, w.ev, r)]
         /\ sentW' = [sentW EXCEPT ![c] = PayloadW(c, w.ev, r)]
         /\ first' = [first EXCEPT ![c] = Log3(first[c], w.ev)]
         /\ wr' = Did("tick", c, w, r.ok)
  /\ UNCHANGED storeVars
  /\ UNCHANGED clientVars
  /\ UNCHANGED boardVars
  /\ UNCHANGED feedVars
  /\ UNCHANGED agentVars
  /\ UNCHANGED <<pc, pollInterval, ctrl, startRead, torn>>

\* An abort handler that marks the connection closed and leaves the timer.
abortHandlerNoClear(c) ==
  /\ isClosed' = [isClosed EXCEPT ![c] = TRUE]
  /\ UNCHANGED pollInterval

\* abortHandler: isClosed.value = true; clearInterval(pollInterval).
abortHandler(c) ==
  /\ isClosed' = [isClosed EXCEPT ![c] = TRUE]
  /\ pollInterval' = [pollInterval EXCEPT ![c] = FALSE]

\* The client's abort signal arrives (once per request).
Abort(c) ==
  /\ pc[c] \notin {"idle", "refused"}
  /\ ~torn[c]
  /\ faults < MaxFaults
  /\ faults' = faults + 1
  /\ abortHandler(c)
  /\ torn' = [torn EXCEPT ![c] = TRUE]
  /\ wr' = Did("abort", c, Nothing(c), FALSE)
  /\ UNCHANGED storeVars
  /\ UNCHANGED clientVars
  /\ UNCHANGED boardVars
  /\ UNCHANGED feedVars
  /\ UNCHANGED agentVars
  /\ UNCHANGED <<lastTasksHash, lastWatcherHash, pc, ctrl, startRead, inflight,
                 sentT, sentW, first>>

\* cancel(): isClosed.value = true; clearInterval(pollInterval).
cancel(c) ==
  /\ isClosed' = [isClosed EXCEPT ![c] = TRUE]
  /\ pollInterval' = [pollInterval EXCEPT ![c] = FALSE]

\* The hosting runtime cancels the stream, which closes its controller.
Cancel(c) ==
  /\ pc[c] \notin {"idle", "refused"}
  /\ ctrl[c] = "readable"
  /\ faults < MaxFaults
  /\ faults' = faults + 1
  /\ ctrl' = [ctrl EXCEPT ![c] = "closed"]
  /\ cancel(c)
  /\ torn' = [torn EXCEPT ![c] = TRUE]
  /\ wr' = Did("cancel", c, Nothing(c), FALSE)
  /\ UNCHANGED storeVars
  /\ UNCHANGED clientVars
  /\ UNCHANGED boardVars
  /\ UNCHANGED feedVars
  /\ UNCHANGED agentVars
  /\ UNCHANGED <<lastTasksHash, lastWatcherHash, pc, startRead, inflight,
                 sentT, sentW, first>>

\* The transport is torn down under the endpoint: the controller stops
\* accepting data before any handler of the connection has been told.
TransportClose(c) ==
  /\ pc[c] \notin {"idle", "refused"}
  /\ ctrl[c] = "readable"
  /\ faults < MaxFaults
  /\ faults' = faults + 1
  /\ ctrl' = [ctrl EXCEPT ![c] = "closed"]
  /\ wr' = Idle
  /\ UNCHANGED storeVars
  /\ UNCHANGED clientVars
  /\ UNCHANGED boardVars
  /\ UNCHANGED feedVars
  /\ UNCHANGED agentVars
  /\ UNCHANGED <<lastTasksHash, lastWatcherHash, pc, isClosed, pollInterval,
                 startRead, inflight, sentT, sentW, first, torn>>

\* ----------------------------------------------------------- client actions
\* The session after a handler, and what the handler did.
Becomes(kind, id, st) ==
  /\ connectionState' = st.connectionState
  /\ eventSourceRef' = st.eventSourceRef
  /\ reconnectTimeoutRef' = st.reconnectTimeoutRef
  /\ reconnectAttempts' = st.reconnectAttempts
  /\ es' = st.es
  /\ timers' = st.timers
  /\ cl' = [kind |-> kind, id |-> id, cb |-> st.cb, delay |-> st.delay,
            before |-> reconnectAttempts, had |-> Live(es),
            parsed |-> st.parsed]

\* The first run of the effect, after the first render.
Mount ==
  /\ ~mounted
  /\ mounted' = TRUE
  /\ Becomes("mount", 0, effect(Session, enabled))
  /\ UNCHANGED <<enabled, fails>>
  /\ UNCHANGED serverVars
  /\ UNCHANGED boardVars
  /\ UNCHANGED feedVars
  /\ UNCHANGED agentVars

\* The host renders with `enabled` = b (a toggle when b differs, otherwise a
\* render that changes the identity of a callback): the effect's cleanup runs
\* disconnect(), then the effect runs again.
Render(b) ==
  /\ mounted
  /\ Live(es) # StreamIds
  /\ enabled' = b
  /\ Becomes(IF b # enabled THEN "toggle" ELSE "render", 0,
             effect(disconnect(Session), b))
  /\ UNCHANGED <<mounted, fails>>
  /\ UNCHANGED serverVars
  /\ UNCHANGED boardVars
  /\ UNCHANGED feedVars
  /\ UNCHANGED agentVars

\* The caller invokes the connect() the hook returned.
CallConnect ==
  /\ mounted
  /\ Live(es) # StreamIds
  /\ Becomes("connect", 0, connect(Session, enabled))
  /\ UNCHANGED <<mounted, enabled, fails>>
  /\ UNCHANGED serverVars
  /\ UNCHANGED boardVars
  /\ UNCHANGED feedVars
  /\ UNCHANGED agentVars

\* The caller invokes the disconnect() the hook returned.
CallDisconnect ==
  /\ mounted
  /\ Becomes("disconnect", 0, disconnect(Session))
  /\ UNCHANGED <<mounted, enabled, fails>>
  /\ UNCHANGED serverVars
  /\ UNCHANGED boardVars
  /\ UNCHANGED feedVars
  /\ UNCHANGED agentVars

\* Stream s delivers the `connected` event the endpoint writes first.
OnConnected(s) ==
  /\ es[s].state = "open"
  /\ Becomes("connected", s, onconnected(Session, s))
  /\ fails' = 0
  /\ UNCHANGED <<mounted, enabled>>
  /\ UNCHANGED serverVars
  /\ UNCHANGED boardVars
  /\ UNCHANGED feedVars
  /\ UNCHANGED agentVars

\* Stream s delivers a `tasks` event, whose payload parses (ok) or not.
OnTasks(s, ok) ==
  /\ es[s].state = "greeted"
  /\ Becomes("tasks", s, onmessage(Session, "onTasksUpdate", ok))
  /\ UNCHANGED <<mounted, enabled, fails>>
  /\ UNCHANGED serverVars
  /\ UNCHANGED boardVars
  /\ UNCHANGED feedVars
  /\ UNCHANGED agentVars

\* Stream s delivers a `watcher` event, whose payload parses (ok) or not.
OnWatcher(s, ok) ==
  /\ es[s].state = "greeted"
  /\ Becomes("watcher", s, onmessage(Session, "onWatcherUpdate", ok))
  /\ UNCHANGED <<mounted, enabled, fails>>
  /\ UNCHANGED serverVars
  /\ UNCHANGED boardVars
  /\ UNCHANGED feedVars
  /\ UNCHANGED agentVars

\* The transport of stream s fails: its onerror runs.
OnError(s) ==
  /\ es[s].state # "closed"
  /\ Pending(timers) # TimerIds
  /\ Becomes("error", s, onerror(Session, s))
  /\ fails' = Min(fails + 1, maxReconnectAttempts + 1)
  /\ UNCHANGED <<mounted, enabled>>
  /\ UNCHANGED serverVars
  /\ UNCHANGED boardVars
  /\ UNCHANGED feedVars
  /\ UNCHANGED agentVars

\* Timeout t expires: its callback calls the connect() of the render that
\* created the failed stream.
TimerFire(t) ==
  /\ timers[t].pending
  /\ Live(es) # StreamIds
  /\ Becomes("timer", t,
             connect([Session EXCEPT !.timers[t].pending = FALSE],
                     timers[t].en))
  /\ UNCHANGED <<mounted, enabled, fails>>
  /\ UNCHANGED serverVars
  /\ UNCHANGED boardVars
  /\ UNCHANGED feedVars
  /\ UNCHANGED agentVars

ClientNext ==
  \/ Mount
  \/ \E b \in BOOLEAN : Render(b)
  \/ CallConnect
  \/ CallDisconnect
  \/ \E s \in StreamIds : OnConnected(s)
  \/ \E s \in StreamIds, ok \in BOOLEAN : OnTasks(s, ok)
  \/ \E s \in StreamIds, ok \in BOOLEAN : OnWatcher(s, ok)
  \/ \E s \in StreamIds : OnError(s)
  \/ \E t \in TimerIds : TimerFire(t)

ClientSpec == Init /\ [][ClientNext]_vars

\* A timeout that is set and not cleared expires.
ClientFairSpec ==
  ClientSpec /\ \A t \in TimerIds : WF_vars(TimerFire(t))

\* What a read started now can return.
Reads == {ReadOk(rows, watcher), ReadFail}

Next ==
  \/ \E i \in TaskIds, p \in {NoProject, TheProject} : CreateTask(i, p)
  \/ \E i \in TaskIds, s \in Statuses : UpdateTask(i, s)
  \/ \E i \in TaskIds : DeleteTask(i)
  \/ DeleteProject
  \/ ToggleWatcher
  \/ \E c \in Conns : Refuse(c)
  \/ \E c \in Conns, r \in Reads : Connect(c, r)
  \/ \E c \in Conns : StartResume(c)
  \/ \E c \in Conns, r \in Reads : TickFire(c, r)
  \/ \E c \in Conns, k \in 1..MaxInflight : TickResume(c, k)
  \/ \E c \in Conns : Abort(c)
  \/ \E c \in Conns : Cancel(c)
  \/ \E c \in Conns : TransportClose(c)

Spec == Init /\ [][Next]_vars

\* setInterval keeps firing the callback of a timer that is set.
FairSpec == Spec /\ \A c \in Conns : WF_vars(\E r \in Reads : TickFire(c, r))

\* One client, whose store reads may take longer than the poll period.
OverlapNext ==
  \/ \E i \in TaskIds, p \in {NoProject, TheProject} : CreateTask(i, p)
  \/ \E i \in TaskIds, s \in Statuses : UpdateTask(i, s)
  \/ \E i \in TaskIds : DeleteTask(i)
  \/ DeleteProject
  \/ ToggleWatcher
  \/ Refuse(1)
  \/ \E r \in Reads : Connect(1, r)
  \/ StartResume(1)
  \/ \E r \in Reads : TickFire(1, r)
  \/ \E r \in Reads : TickOverlap(1, r)
  \/ \E k \in 1..MaxOverlap : TickResume(1, k)
  \/ Abort(1)
  \/ Cancel(1)
  \/ TransportClose(1)

OverlapSpec == Init /\ [][OverlapNext]_vars

\* ------------------------------------------------------ view model actions
\* React renders between two handlers: each handler below sees the state
\* the one before it left, and the `tasks` listener of the stream is the
\* handleTasksUpdate of the last render (connect depends on onTasksUpdate,
\* unnamed/part_008 line 89), so it sees the current activeId.

\* handleTasksUpdate(B): what it does to the state of the board.
handleTasksUpdate(B) ==
  LET m == mergeTaskUpdates(tasks, tasksToMerge(tasks, B, activeId))
      r == reconcileDetail(detailTask, B)
      overridden ==
        /\ activeId # 0
        /\ Find(tasks, activeId) # 0
        /\ Find(B, activeId) # 0
        /\ B[Find(B, activeId)].status # tasks[Find(tasks, activeId)].status
  IN  /\ tasks' = m.items
      /\ detailTask' = r.detail
      /\ bd' = [kind |-> "tasks", detail |-> r.did, call |-> NoCall,
                incoming |->
                  IF detailTask.has /\ Find(B, detailTask.task.id) # 0
                    THEN [has |-> TRUE,
                          task |-> B[Find(B, detailTask.task.id)]]
                    ELSE NoDetail,
                remote |-> IF activeId # 0 /\ Find(B, activeId) # 0
                             THEN B[Find(B, activeId)].status ELSE "none",
                paths |-> IF overridden THEN bd.paths \cup {m.list}
                          ELSE bd.paths]
      /\ UNCHANGED activeId

\* A `tasks` event carrying snapshot B.
TasksEvent(B) ==
  /\ handleTasksUpdate(B)
  /\ UNCHANGED pureVars
  /\ UNCHANGED serverVars
  /\ UNCHANGED clientVars
  /\ UNCHANGED feedVars
  /\ UNCHANGED agentVars

\* fetchTasks, once the response has arrived with the list B.
fetchTasks(B) ==
  /\ tasks' = B
  /\ bd' = [bd EXCEPT !.kind = "fetch", !.remote = "none",
                      !.incoming = NoDetail, !.detail = "none",
                      !.call = NoCall]
  /\ UNCHANGED <<activeId, detailTask>>

\* The response of GET /api/tasks arrives with the list B: fetchTasks, called
\* when the board mounts and when the update call of a drag fails.
FetchTasks(B) ==
  /\ fetchTasks(B)
  /\ UNCHANGED pureVars
  /\ UNCHANGED serverVars
  /\ UNCHANGED clientVars
  /\ UNCHANGED feedVars
  /\ UNCHANGED agentVars

\* handleDragStart for the card of task i.
handleDragStart(i) ==
  /\ activeId = 0
  /\ Find(tasks, i) # 0
  /\ activeId' = i
  /\ bd' = [kind |-> "dragstart", remote |-> "none", incoming |-> NoDetail,
            detail |-> "none", call |-> NoCall, paths |-> {}]
  /\ UNCHANGED <<tasks, detailTask>>

\* The user starts dragging the card of task i.
DragStart(i) ==
  /\ handleDragStart(i)
  /\ UNCHANGED pureVars
  /\ UNCHANGED serverVars
  /\ UNCHANGED clientVars
  /\ UNCHANGED feedVars
  /\ UNCHANGED agentVars

\* tasks.map(t => t.id === id ? { ...t, status } : t)
setStatus(list, id, status) ==
  [k \in 1..Len(list) |->
     IF list[k].id = id THEN [list[k] EXCEPT !.status = status] ELSE list[k]]

\* The dragged card moves over nothing (over = <<"none">>), over a column
\* (<<"column", status>>) or over the card of a task (<<"task", id>>).
handleDragOver(over) ==
  /\ activeId # 0
  /\ LET a == Find(tasks, activeId)
         o == IF over[1] = "task" THEN Find(tasks, over[2]) ELSE 0
     IN  tasks' =
           IF over[1] = "none" \/ a = 0 THEN tasks
           ELSE IF over[1] = "column" /\ tasks[a].status # over[2]
             THEN setStatus(tasks, activeId, over[2])
           ELSE IF o # 0 /\ tasks[a].status # tasks[o].status
             THEN setStatus(tasks, activeId, tasks[o].status)
           ELSE tasks
  /\ bd' = [bd EXCEPT !.kind = "dragover", !.remote = "none",
                      !.incoming = NoDetail, !.detail = "none",
                      !.call = NoCall]
  /\ UNCHANGED <<activeId, detailTask>>

\* The dragged card moves.
DragOver(over) ==
  /\ handleDragOver(over)
  /\ UNCHANGED pureVars
  /\ UNCHANGED serverVars
  /\ UNCHANGED clientVars
  /\ UNCHANGED feedVars
  /\ UNCHANGED agentVars

\* handleDragEnd for a card dropped over a target, or not.
handleDragEnd(over) ==
  /\ activeId # 0
  /\ activeId' = 0
  /\ LET a == Find(tasks, activeId)
     IN  bd' = [bd EXCEPT
                  !.kind = "dragend", !.remote = "none",
                  !.incoming = NoDetail, !.detail = "none",
                  !.call = IF over /\ a # 0
                             THEN [issued |-> TRUE, id |-> tasks[a].id,
                                   status |-> tasks[a].status]
                             ELSE NoCall]
  /\ UNCHANGED <<tasks, detailTask>>

\* The user drops the card.
DragEnd(over) ==
  /\ handleDragEnd(over)
  /\ UNCHANGED pureVars
  /\ UNCHANGED serverVars
  /\ UNCHANGED clientVars
  /\ UNCHANGED feedVars
  /\ UNCHANGED agentVars

\* The user opens the detail view of the card of task i: openDetailModal.
OpenDetail(i) ==
  /\ Find(tasks, i) # 0
  /\ detailTask' = [has |-> TRUE, task |-> tasks[Find(tasks, i)]]
  /\ bd' = [bd EXCEPT !.kind = "detail", !.remote = "none",
                      !.incoming = NoDetail, !.detail = "none",
                      !.call = NoCall]
  /\ UNCHANGED <<tasks, activeId>>
  /\ UNCHANGED pureVars
  /\ UNCHANGED serverVars
  /\ UNCHANGED clientVars
  /\ UNCHANGED feedVars
  /\ UNCHANGED agentVars

OverTargets ==
  {<<"none">>} \cup {<<"column", st>> : st \in Statuses}
               \cup {<<"task", i>> : i \in BoardIds}

BoardNext ==
  \/ \E B \in Snapshots : TasksEvent(B)
  \/ \E B \in Snapshots : FetchTasks(B)
  \/ \E i \in BoardIds : DragStart(i)
  \/ \E over \in OverTargets : DragOver(over)
  \/ \E over \in BOOLEAN : DragEnd(over)
  \/ \E i \in BoardIds : OpenDetail(i)

BoardSpec == Init /\ [][BoardNext]_vars

\* ------------------------------------------------- the two pure functions
\* Each behaviour applies one of the two functions once, to inputs drawn
\* from the bounded sets.
\* tasksAreEqual applied to a task and to one that differs from it in the
\* fields of D.
Compare(a, D) ==
  LET b == With(a, IF a = BaseTask THEN OtherTask ELSE BaseTask, D)
  IN  /\ eq' = [a |-> a, b |-> b, result |-> tasksAreEqual(a, b),
                done |-> TRUE]
      /\ UNCHANGED mg
      /\ UNCHANGED viewVars
      /\ UNCHANGED feedVars
      /\ UNCHANGED agentVars
      /\ UNCHANGED serverVars
      /\ UNCHANGED clientVars

\* mergeTaskUpdates applied to two lists.
Merge(A, B) ==
  /\ mg' = [A |-> A, B |-> B, out |-> mergeTaskUpdates(A, B), done |-> TRUE]
  /\ UNCHANGED eq
  /\ UNCHANGED viewVars
  /\ UNCHANGED feedVars
  /\ UNCHANGED agentVars
  /\ UNCHANGED serverVars
  /\ UNCHANGED clientVars

PureNext ==
  \/ /\ ~eq.done /\ ~mg.done
     /\ \E a \in {BaseTask, OtherTask} :
          \E D \in {X \in SUBSET TaskFields : Cardinality(X) <= MaxDiff} :
            Compare(a, D)
  \/ /\ ~eq.done /\ ~mg.done
     /\ \E A \in Lists : \E B \in Lists : Merge(A, B)

PureSpec == Init /\ [][PureNext]_vars

\* ------------------------------------------- the board on its own stream
\* The board, the endpoint of its stream and the store together.  link says
\* how far the stream of the board is: "none" before the board mounts, "open"
\* once the EventSource exists, "start" once `connected` has arrived and the
\* cold-start read of start() is awaited, "polling" afterwards.

\* JSON.stringify(tasks) on the endpoint, JSON.parse on the board: the rows
\* as the board holds them.
Shown(ts) ==
  [k \in 1..Len(ts) |->
     [BaseTask EXCEPT !.id = ts[k].id, !.status = ts[k].status,
                      !.updated_at = ts[k].updated_at,
                      !.project_id = ts[k].project_id]]

\* A render of KanbanBoard passes new onConnect and onDisconnect functions to
\* the hook, so connect changes and the effect of the hook runs again:
\* disconnect(), then connect() on a new EventSource.
reopened(rendered) == IF rendered /\ link # "none" THEN "open" ELSE link

\* Whether handleTasksUpdate(B) changes the state of the board: setTasks and
\* setDetailTask given the object they already hold do not render.
Rerenders(B) ==
  \/ mergeTaskUpdates(tasks, tasksToMerge(tasks, B, activeId)).list # "current"
  \/ reconcileDetail(detailTask, B).did = "replaced"

viewFrame ==
  /\ UNCHANGED pureVars
  /\ UNCHANGED agentVars
  /\ UNCHANGED clientVars
  /\ UNCHANGED <<project, watcher, lastWatcherHash, pc, isClosed, pollInterval,
                 ctrl, startRead, inflight, sentT, sentW, first, torn, wr>>

\* The board mounts: the effect of the hook connects, the effect of the
\* board calls fetchTasks().
ViewOpen ==
  /\ link = "none"
  /\ link' = "open"
  /\ fetching' = TRUE
  /\ UNCHANGED <<patch, grabbed>>
  /\ UNCHANGED viewVars
  /\ UNCHANGED <<now, rows, lastTasksHash, faults>>
  /\ viewFrame

\* KanbanBoard renders for a reason of its own (setIsConnected after
\* `connected`, the watcher, a modal).
ViewRender ==
  /\ link \in {"start", "polling"}
  /\ link' = reopened(TRUE)
  /\ UNCHANGED <<patch, fetching, grabbed>>
  /\ UNCHANGED viewVars
  /\ UNCHANGED <<now, rows, lastTasksHash, faults>>
  /\ viewFrame

\* start() writes `connected` and the board receives it.
ViewGreet ==
  /\ link = "open"
  /\ link' = "start"
  /\ UNCHANGED <<patch, fetching, grabbed>>
  /\ UNCHANGED viewVars
  /\ UNCHANGED <<now, rows, lastTasksHash, faults>>
  /\ viewFrame

\* The cold-start read of start() returns: the snapshot is written, received
\* and merged, and the fingerprint recorded; or the read is rejected and
\* start() goes on to set the timer.
ViewColdStart(ok) ==
  /\ link = "start"
  /\ IF ok
       THEN LET ts == getAllTasks(rows)
            IN  /\ handleTasksUpdate(Shown(ts))
                /\ lastTasksHash' = hashState(Triples(ts))
                /\ link' = IF Rerenders(Shown(ts)) THEN "open" ELSE "polling"
                /\ UNCHANGED faults
       ELSE /\ faults < MaxFaults
            /\ faults' = faults + 1
            /\ link' = "polling"
            /\ UNCHANGED lastTasksHash
            /\ UNCHANGED viewVars
  /\ UNCHANGED <<patch, fetching, grabbed>>
  /\ UNCHANGED <<now, rows>>
  /\ viewFrame

\* A poll callback whose read finds another fingerprint than the recorded
\* one: the snapshot is written, received and merged.
ViewTick ==
  /\ link = "polling"
  /\ LET ts == getAllTasks(rows)
         cur == hashState(Triples(ts))
     IN  /\ Differs(cur, lastTasksHash)
         /\ handleTasksUpdate(Shown(ts))
         /\ lastTasksHash' = cur
         /\ link' = reopened(Rerenders(Shown(ts)))
  /\ UNCHANGED <<patch, fetching, grabbed>>
  /\ UNCHANGED <<now, rows, faults>>
  /\ viewFrame

\* The user picks up the card of task i; one update call is in flight at most.
ViewDragStart(i) ==
  /\ link # "none"
  /\ ~patch.issued
  /\ handleDragStart(i)
  /\ grabbed' = tasks[Find(tasks, i)].status
  /\ link' = reopened(TRUE)
  /\ UNCHANGED <<patch, fetching>>
  /\ UNCHANGED <<now, rows, lastTasksHash, faults>>
  /\ viewFrame

ViewDragOver(over) ==
  /\ handleDragOver(over)
  /\ link' = reopened(tasks' # tasks)
  /\ UNCHANGED <<patch, fetching, grabbed>>
  /\ UNCHANGED <<now, rows, lastTasksHash, faults>>
  /\ viewFrame

\* The user drops the card: over a target the update call is issued.
ViewDragEnd(over) ==
  /\ handleDragEnd(over)
  /\ patch' = bd'.call
  /\ link' = reopened(TRUE)
  /\ UNCHANGED <<fetching, grabbed>>
  /\ UNCHANGED <<now, rows, lastTasksHash, faults>>
  /\ viewFrame

\* The update call of a drop comes back: the row was updated ("updated"),
\* the endpoint answered 404 or 500 ("refused"), or fetch was rejected
\* ("failed") and the catch calls fetchTasks().
ViewPatch(outcome) ==
  /\ patch.issued
  /\ patch' = NoCall
  /\ CASE outcome = "updated" ->
            /\ now < MaxClock
            /\ patch.id \in TaskIds
            /\ rows[patch.id].present
            /\ now' = now + 1
            /\ rows' = updateTask(rows, now + 1, patch.id, patch.status)
            /\ UNCHANGED <<faults, fetching>>
       [] outcome = "refused" ->
            UNCHANGED <<now, rows, faults, fetching>>
       [] outcome = "failed" ->
            /\ faults < MaxFaults
            /\ faults' = faults + 1
            /\ fetching' = TRUE
            /\ UNCHANGED <<now, rows>>
  /\ UNCHANGED <<link, grabbed>>
  /\ UNCHANGED viewVars
  /\ UNCHANGED lastTasksHash
  /\ viewFrame

\* The response of GET /api/tasks arrives.
ViewFetched ==
  /\ fetching
  /\ fetching' = FALSE
  /\ fetchTasks(Shown(getAllTasks(rows)))
  /\ link' = reopened(TRUE)
  /\ UNCHANGED <<patch, grabbed>>
  /\ UNCHANGED <<now, rows, lastTasksHash, faults>>
  /\ viewFrame

ViewNext ==
  \/ \E i \in TaskIds : CreateTask(i, NoProject)
  \/ \E i \in TaskIds : \E st \in Statuses : UpdateTask(i, st)
  \/ \E i \in TaskIds : DeleteTask(i)
  \/ ViewOpen
  \/ ViewRender
  \/ ViewGreet
  \/ \E ok \in BOOLEAN : ViewColdStart(ok)
  \/ ViewTick
  \/ \E i \in BoardIds : ViewDragStart(i)
  \/ \E over \in OverTargets : ViewDragOver(over)
  \/ \E over \in BOOLEAN : ViewDragEnd(over)
  \/ \E outcome \in {"updated", "refused", "failed"} : ViewPatch(outcome)
  \/ ViewFetched

ViewSpec == Init /\ [][ViewNext]_vars

\* The endpoint and the network make progress; renders, drags and the other
\* users of the store need not.
ViewFairSpec ==
  /\ ViewSpec
  /\ WF_vars(ViewGreet)
  /\ WF_vars(\E ok \in BOOLEAN : ViewColdStart(ok))
  /\ WF_vars(ViewTick)
  /\ WF_vars(\E outcome \in {"updated", "refused", "failed"} :
               ViewPatch(outcome))
  /\ WF_vars(ViewFetched)


\* ------------------------------------------------ watcher POST actions
postFrame ==
  /\ UNCHANGED <<rows, project>>
  /\ UNCHANGED connVars
  /\ UNCHANGED wr
  /\ UNCHANGED clientVars
  /\ UNCHANGED boardVars
  /\ UNCHANGED feedVars

\* POST /api/watcher with action start_task or end_task and a task_id, up to
\* the return of its getWatcherConfig(): the list is read and parsed.
PostRead(r, action, id) ==
  /\ posts[r].pc = "idle"
  /\ posts' = [posts EXCEPT ![r] = [pc |-> "read", action |-> action,
                                     task_id |-> id,
                                     activeIds |-> active_task_ids]]
  /\ UNCHANGED <<active_task_ids, ledger>>
  /\ UNCHANGED <<now, watcher>>
  /\ postFrame

\* The rest of the request: the new list is computed from the list read and
\* updateWatcherConfig writes it, with updated_at = NOW().
PostWrite(r) ==
  /\ posts[r].pc = "read"
  /\ active_task_ids' =
       IF posts[r].action = "start_task"
         THEN startTask(posts[r].activeIds, posts[r].task_id)
         ELSE endTask(posts[r].activeIds, posts[r].task_id)
  /\ ledger' = IF posts[r].action = "start_task"
                 THEN ledger \cup {posts[r].task_id}
                 ELSE ledger \ {posts[r].task_id}
  /\ now' = Later(now)
  /\ watcher' = [watcher EXCEPT !.updated_at = Later(now)]
  /\ posts' = [posts EXCEPT ![r] = NoPost]
  /\ postFrame

WatcherNext ==
  \/ \E r \in Posts, id \in Jobs : PostRead(r, "start_task", id)
  \/ \E r \in Posts, id \in Jobs : PostRead(r, "end_task", id)
  \/ \E r \in Posts : PostWrite(r)

WatcherSpec == Init /\ [][WatcherNext]_vars

\* ------------------------------------------------------------------ claims
Full == <<"connected", "tasks", "watcher">>

Count(ev, name) == Cardinality({k \in 1..Len(ev) : ev[k] = name})

\* The read a poll callback of c resumes with, and whether it ran to its end.
Completed(c, k) ==
  /\ TickResume(c, k)
  /\ inflight[c][k].ok
  /\ Has(wr'.ev, "heartbeat")

\* C1: whatever the store held when a connection's tick read it, the
\* connection holds once that tick has run to its heartbeat: every change of
\* the task triples or of the watcher config reaches each open connection,
\* whatever was sent to other connections.
C1_EveryChangeReachesEachConnection ==
  [][\A c \in Conns, k \in 1..MaxInflight :
        Completed(c, k) =>
          /\ sentT'[c] = [has |-> TRUE, data |-> Triples(inflight[c][k].tasks)]
          /\ sentW'[c] = [has |-> TRUE, data |-> inflight[c][k].watcher]]_vars

\* C2: the first three writes of a connection are connected, tasks, watcher,
\* in this order; no poll timer is set and no poll callback runs before the
\* cold-start sync is over; a cold-start sync whose read succeeded on an open
\* connection writes its tasks and watcher events, a tasks event included when
\* the board is empty.
C2_ColdStart ==
  /\ \A c \in Conns :
       /\ pc[c] = "idle" => first[c] = <<>>
       /\ pc[c] = "start" => first[c] = <<"connected">>
       /\ pc[c] \in {"idle", "start"} => ~pollInterval[c] /\ inflight[c] = <<>>
       /\ startRead[c].ok => first[c] = SubSeq(Full, 1, Len(first[c]))
       /\ pollInterval[c] /\ startRead[c].ok => first[c] = Full
  /\ (wr.kind = "start" /\ wr.readOk /\ ~wr.closedBefore
        /\ ctrl[wr.conn] = "readable")
       => /\ wr.ev = <<"tasks", "watcher">>
          /\ first[wr.conn] = Full
          /\ sentT[wr.conn].has /\ sentW[wr.conn].has
          /\ pollInterval[wr.conn]

C2_Witness ==
  /\ wr.kind = "start"
  /\ first[wr.conn] = Full
  /\ sentT[wr.conn] = [has |-> TRUE, data |-> <<>>]
  /\ pollInterval[wr.conn]

\* C3: a tick that ran to its heartbeat wrote exactly one tasks event,
\* carrying the list it read, when the triples it read differ from those of
\* the connection's last tasks event, and no tasks event when they do not.
C3_ForwardOnlyEmission ==
  [][\A c \in Conns, k \in 1..MaxInflight :
        Completed(c, k) =>
          LET new == Triples(inflight[c][k].tasks)
              changed == ~sentT[c].has \/ sentT[c].data # new
          IN  /\ Count(wr'.ev, "tasks") = (IF changed THEN 1 ELSE 0)
              /\ changed => sentT'[c] = [has |-> TRUE, data |-> new]]_vars

\* C4: a tick of an open connection that read the triples and the watcher
\* config last sent on that connection writes no tasks and no watcher event,
\* only the heartbeat.
C4_NoOpTick ==
  [][\A c \in Conns, k \in 1..MaxInflight :
        (/\ TickResume(c, k)
         /\ inflight[c][k].ok
         /\ ~isClosed[c]
         /\ sentT[c] = [has |-> TRUE, data |-> Triples(inflight[c][k].tasks)]
         /\ sentW[c] = [has |-> TRUE, data |-> inflight[c][k].watcher])
        => /\ ~Has(wr'.ev, "tasks")
           /\ ~Has(wr'.ev, "watcher")
           /\ ctrl[c] = "readable" => wr'.ev = <<"heartbeat">>]_vars

\* C5: every change of a stored task advances its updated_at.
C5_UpdatedAtAdvances ==
  [][\A i \in TaskIds :
        (rows[i].present /\ rows'[i].present /\ rows'[i] # rows[i])
          => rows'[i].updated_at > rows[i].updated_at]_vars

\* C6 as stated: every poll tick of a connection that is not closed (flag
\* clear, controller accepting data) writes exactly one heartbeat.
C6_HeartbeatEveryTick ==
  (wr.kind = "tick" /\ ~wr.closedBefore /\ ctrl[wr.conn] = "readable")
    => Count(wr.ev, "heartbeat") = 1

\* C6 amended: a poll tick of a connection that is not closed writes exactly
\* one heartbeat, as its last write, when its store read succeeded, whether
\* or not it wrote a tasks or a watcher event; a tick whose read failed
\* writes nothing.
C6_HeartbeatWhenReadSucceeds ==
  /\ (wr.kind = "tick" /\ ~wr.closedBefore /\ ctrl[wr.conn] = "readable"
        /\ wr.readOk)
       => /\ Count(wr.ev, "heartbeat") = 1
          /\ wr.ev[Len(wr.ev)] = "heartbeat"
  /\ (wr.kind = "tick" /\ ~wr.readOk) => wr.ev = <<>>

C6_Witness ==
  /\ wr.kind = "tick"
  /\ wr.ev = <<"tasks", "heartbeat">>

\* C7: no handler calls controller.enqueue with the closed flag set: a handler
\* that finds the flag set attempts no write, and a handler whose write failed
\* (which sets the flag) attempts none after it.
C7_GuardedWrite ==
  /\ wr.closedBefore => wr.attempts = 0
  /\ wr.attempts <= Len(wr.ev) + 1
  /\ wr.attempts > Len(wr.ev) => isClosed[wr.conn]

C7_Witness ==
  /\ wr.kind = "tick"
  /\ wr.readOk
  /\ wr.closedBefore
  /\ wr.attempts = 0

\* C8: once an abort signal or cancel() has arrived the connection is marked
\* closed and has no poll timer, and no handler of it starts a store read or
\* attempts a write.
C8_Teardown ==
  /\ \A c \in Conns : torn[c] => isClosed[c] /\ ~pollInterval[c]
  /\ (wr.conn \in Conns /\ wr.closedBefore /\ torn[wr.conn])
       => /\ wr.attempts = 0
          /\ wr.kind \notin {"fire", "connect"}

C8_Witness ==
  /\ wr.kind = "tick"
  /\ wr.readOk
  /\ torn[wr.conn]
  /\ ~pollInterval[wr.conn]

\* C9: a write that fails on a controller closed under the endpoint marks the
\* connection closed and is the last write the handler attempts; no later
\* handler of the connection attempts a write; the poll timer of a closed
\* connection is cancelled.
C9_WriteFailureTeardown ==
  /\ [](/\ wr.attempts > Len(wr.ev)
             => isClosed[wr.conn] /\ wr.attempts = Len(wr.ev) + 1
        /\ wr.closedBefore => wr.ev = <<>> /\ wr.attempts = 0)
  /\ \A c \in Conns : isClosed[c] ~> ~pollInterval[c]

C9_Witness ==
  /\ wr.kind = "tick"
  /\ wr.attempts > Len(wr.ev)
  /\ isClosed[wr.conn]
  /\ pollInterval[wr.conn]

\* C10: a poll tick whose store read failed writes nothing and leaves the
\* connection open, its timer set and the stored fingerprints as they were;
\* the timer's next firing starts a new read.
C10_FailedReadSkipsTick ==
  /\ []((wr.kind = "tick" /\ ~wr.readOk /\ ~wr.closedBefore)
          => /\ wr.ev = <<>> /\ wr.attempts = 0
             /\ ~isClosed[wr.conn]
             /\ pollInterval[wr.conn]
             /\ ENABLED TickFire(wr.conn, ReadOk(rows, watcher)))
  /\ [][\A c \in Conns, k \in 1..MaxInflight :
          (TickResume(c, k) /\ ~inflight[c][k].ok)
            => UNCHANGED <<lastTasksHash, lastWatcherHash>>]_vars

C10_Witness ==
  /\ wr.kind = "tick"
  /\ ~wr.readOk
  /\ ~wr.closedBefore
  /\ pollInterval[wr.conn]

\* C11: the snapshots a connection receives never go back in time: the
\* watcher config of a watcher event is not older than the one the connection
\* already holds, and no task of a tasks event is older than the same task in
\* the tasks event the connection already holds.
C11_SnapshotsInReadOrder ==
  [][\A c \in Conns :
        /\ (sentW[c].has /\ sentW'[c].has)
             => sentW'[c].data.updated_at >= sentW[c].data.updated_at
        /\ (sentT[c].has /\ sentT'[c].has)
             => \A a \in 1..Len(sentT[c].data), b \in 1..Len(sentT'[c].data) :
                  sentT[c].data[a].id = sentT'[c].data[b].id
                    => sentT'[c].data[b].updated_at
                         >= sentT[c].data[a].updated_at]_vars

\* C12: the poll callbacks of a connection run one after the other: no
\* callback starts while an earlier callback of the connection has not run
\* to its end.
C12_SequentialTicks ==
  \A c \in Conns : Len(inflight[c]) <= 1

\* C13: the closed flag of a connection is set only by the abort handler, by
\* cancel() or by a write that failed; a failed store read, a tick or the
\* passing of time never sets it; once set it stays set.
C13_ClosedOnlyByClientOrWrite ==
  [][\A c \in Conns :
        /\ isClosed[c] => isClosed'[c]
        /\ (~isClosed[c] /\ isClosed'[c])
             => \/ Abort(c)
                \/ Cancel(c)
                \/ /\ wr'.conn = c
                   /\ wr'.kind \in {"connect", "start", "tick"}
                   /\ wr'.attempts = Len(wr'.ev) + 1
                   /\ ctrl[c] = "closed"]_vars

C13_Witness ==
  /\ wr.kind = "start"
  /\ wr.readOk
  /\ wr.attempts = Len(wr.ev) + 1
  /\ isClosed[wr.conn]
  /\ ~torn[wr.conn]

\* The delays of the spec: min(1000 * 2^(k-1), 30000) for k = 1..10.
Backoff == <<1000, 2000, 4000, 8000, 16000, 30000, 30000, 30000, 30000, 30000>>

\* C14: the k-th transport failure in a row, k < 10, with no `connected`
\* event in between, sets a reconnect timeout of min(1000 * 2^(k-1), 30000)
\* ms; every timeout that is set lies between 1000 and 30000 ms.
C14_BackoffSequence ==
  /\ (cl.kind = "error" /\ fails \in 1..9)
       => /\ cl.delay = Backoff[fails]
          /\ reconnectTimeoutRef \in Pending(timers)
          /\ timers[reconnectTimeoutRef].delay = Backoff[fails]
  /\ \A t \in Pending(timers) :
       timers[t].delay >= 1000 /\ timers[t].delay <= 30000

C14_Witness ==
  /\ cl.kind = "error"
  /\ fails = 6
  /\ cl.delay = 30000

\* C15: the 10th transport failure in a row sets no reconnect timeout and
\* leaves the session disconnected with no timeout pending.
C15_GiveUpOnTenth ==
  (cl.kind = "error" /\ fails = 10)
    => /\ cl.delay = 0
       /\ Pending(timers) = {}
       /\ connectionState = "disconnected"

\* C16: once the reconnect attempts are used up (a transport failure found
\* the counter at its maximum), the session is disconnected with no stream and
\* no timeout, so that nothing happens until the caller acts; and turning
\* `enabled` on again makes a connection attempt: connecting, a new stream.
C16_ExhaustedIsTerminal ==
  /\ []((cl.kind = "error" /\ cl.before = maxReconnectAttempts)
          => /\ connectionState = "disconnected"
             /\ Live(es) = {}
             /\ Pending(timers) = {})
  /\ [][(~enabled /\ Render(TRUE))
          => /\ connectionState' = "connecting"
             /\ eventSourceRef' \in StreamIds
             /\ es'[eventSourceRef'].state = "open"]_vars

\* C17: a transport error that finds attempts left closes the failed stream,
\* sets the state to disconnected, invokes the disconnect callback and sets a
\* timeout; a timeout that is set expires or is cleared by disconnect(); and
\* the timeout that expires makes a connection attempt: connecting, with a
\* new stream that is the one the session holds.
C17_ErrorThenReconnect ==
  /\ [][\A s \in StreamIds :
          (OnError(s) /\ reconnectAttempts < maxReconnectAttempts)
            => /\ es'[s].state = "closed"
               /\ connectionState' = "disconnected"
               /\ cl'.cb = <<"onDisconnect">>
               /\ reconnectTimeoutRef' \in Pending(timers') \ Pending(timers)]_vars
  /\ [][\A t \in TimerIds :
          /\ TimerFire(t)
               => /\ connectionState' = "connecting"
                  /\ Live(es') = {eventSourceRef'}
                  /\ es'[eventSourceRef'].state = "open"
          /\ (t \in Pending(timers) \ Pending(timers'))
               => \/ TimerFire(t)
                  \/ cl'.kind \in {"disconnect", "toggle", "render"}]_vars
  /\ \A t \in TimerIds : timers[t].pending ~> ~timers[t].pending

C17_Witness ==
  /\ cl.kind = "timer"
  /\ fails > 0
  /\ connectionState = "connecting"
  /\ es[eventSourceRef].state = "open"

\* C18: the session never holds more than one stream that is not closed, and
\* that stream is the one eventSourceRef names.
C18_OneLiveStream ==
  /\ Cardinality(Live(es)) <= 1
  /\ Live(es) \subseteq {eventSourceRef}

C18_Witness ==
  /\ cl.kind \in {"connect", "timer"}
  /\ cl.had # {}
  /\ Cardinality(Live(es)) = 1
  /\ es[eventSourceRef].state = "open"

\* C19: at most one reconnect timeout is pending at any time.
C19_OnePendingTimer ==
  Cardinality(Pending(timers)) <= 1

\* C20: after disconnect() (the one of a toggle to off included) no timeout
\* is pending, and while `enabled` is false the session holds no live stream
\* and is disconnected.
C20_DisableWins ==
  /\ (cl.kind = "disconnect" \/ (cl.kind \in {"toggle", "render"} /\ ~enabled))
       => Pending(timers) = {}
  /\ ~enabled => Live(es) = {} /\ connectionState = "disconnected"

\* C21: disconnect() leaves no reconnect timeout pending and no stream live,
\* sets the state to disconnected and invokes the disconnect callback; on a
\* session that is already disconnected it changes nothing of the session.
C21_DisconnectIdempotent ==
  /\ [](cl.kind = "disconnect"
          => /\ Pending(timers) = {}
             /\ Live(es) = {}
             /\ eventSourceRef = 0 /\ reconnectTimeoutRef = 0
             /\ connectionState = "disconnected"
             /\ cl.cb = <<"onDisconnect">>)
  /\ [][(cl.kind = "disconnect" /\ CallDisconnect)
          => UNCHANGED <<connectionState, eventSourceRef, reconnectTimeoutRef,
                         reconnectAttempts, es, timers>>]_vars

\* C22: the `connected` event sets the state to connected, resets the attempt
\* counter to 0 and invokes the connect callback; the first transport failure
\* after it sets the base delay of 1000 ms.
C22_ConnectedResetsBackoff ==
  /\ cl.kind = "connected"
       => /\ connectionState = "connected"
          /\ reconnectAttempts = 0
          /\ cl.cb = <<"onConnect">>
          /\ es[cl.id].state = "greeted"
  /\ (cl.kind = "error" /\ fails = 1)
       => cl.before = 0 /\ cl.delay = 1000

C22_Witness ==
  /\ cl.kind = "connected"
  /\ cl.before > 1
  /\ reconnectAttempts = 0
  /\ connectionState = "connected"

\* C23: a tasks or watcher event whose payload does not parse invokes no
\* callback and changes nothing of the session, and its stream goes on
\* delivering: a well-formed event invokes its update callback.
C23_MalformedEventDropped ==
  /\ []((cl.kind \in {"tasks", "watcher"} /\ ~cl.parsed)
          => /\ cl.cb = <<>>
             /\ es[cl.id].state = "greeted"
             /\ ENABLED OnTasks(cl.id, TRUE)
             /\ ENABLED OnWatcher(cl.id, TRUE))
  /\ []((cl.kind = "tasks" /\ cl.parsed) => cl.cb = <<"onTasksUpdate">>)
  /\ []((cl.kind = "watcher" /\ cl.parsed) => cl.cb = <<"onWatcherUpdate">>)
  /\ [][\A s \in StreamIds :
          (OnTasks(s, FALSE) \/ OnWatcher(s, FALSE))
            => UNCHANGED <<connectionState, eventSourceRef,
                           reconnectTimeoutRef, reconnectAttempts, es,
                           timers>>]_vars

C23_Witness ==
  /\ cl.kind = "tasks"
  /\ ~cl.parsed
  /\ connectionState = "connected"

\* The user-visible fields of the equality contract.
VisibleFields == {"id", "title", "description", "status", "priority",
                  "assignee", "due_date", "estimated_hours", "time_spent",
                  "progress", "is_blocked", "blocked_reason", "project_id",
                  "agent_context"}

\* a and b match in every user-visible field.
FieldEqual(a, b) == \A f \in VisibleFields : a[f] = b[f]

\* The index of the task of A field-equal to b with b's id, 0 when none.
Counterpart(A, b) ==
  IF \E j \in 1..Len(A) : A[j].id = b.id /\ FieldEqual(A[j], b)
    THEN CHOOSE j \in 1..Len(A) : A[j].id = b.id /\ FieldEqual(A[j], b)
    ELSE 0

\* C24: merging a list A with a list B of the same length whose every task
\* is field-equal to the task of A with the same id returns the list A
\* itself, every element being the object of A.
C24_MergePreservesIdentity ==
  (/\ mg.done
   /\ Len(mg.A) = Len(mg.B)
   /\ \A k \in 1..Len(mg.B) : Counterpart(mg.A, mg.B[k]) # 0)
  => /\ mg.out.list = "current"
     /\ mg.out.items = mg.A
     /\ mg.out.from = [k \in 1..Len(mg.A) |-> k]

\* Two tasks come in the other order and with other updated_at, and the
\* merge returned the current list.
C24_Witness ==
  /\ mg.done
  /\ Len(mg.A) = 2 /\ Len(mg.B) = 2
  /\ mg.B[1].id = mg.A[2].id /\ mg.B[2].id = mg.A[1].id
  /\ FieldEqual(mg.A[2], mg.B[1]) /\ FieldEqual(mg.A[1], mg.B[2])
  /\ mg.B[1].updated_at # mg.A[2].updated_at
  /\ mg.B[2].updated_at # mg.A[1].updated_at
  /\ mg.out.list = "current"

\* C25: merging lists of different lengths returns the incoming list itself,
\* none of its elements being an object of the current list.
C25_MergeReplacesOnLengthChange ==
  (mg.done /\ Len(mg.A) # Len(mg.B))
  => /\ mg.out.list = "new"
     /\ mg.out.items = mg.B
     /\ \A k \in 1..Len(mg.B) : mg.out.from[k] = 0

\* The one incoming task is a task of the longer current list, unchanged,
\* and the merge returned the incoming list.
C25_Witness ==
  /\ mg.done
  /\ Len(mg.A) = 2 /\ Len(mg.B) = 1
  /\ mg.B[1] = mg.A[1]
  /\ mg.out.list = "new"

\* The status the update call of a drag that ends now would carry.
Carried ==
  IF activeId # 0 /\ Find(tasks, activeId) # 0
    THEN tasks[Find(tasks, activeId)].status
    ELSE "none"

\* C26: while a task is dragged, the list that results from a snapshot
\* holding that task has it with the status it has locally, whatever status
\* the snapshot gives it, on every snapshot of the drag and whichever list
\* the merge returns.
C26_DragOverride ==
  [][(/\ bd'.kind = "tasks"
      /\ activeId # 0
      /\ Find(tasks, activeId) # 0
      /\ bd'.remote # "none")
     => /\ Find(tasks', activeId) # 0
        /\ tasks'[Find(tasks', activeId)].status = Carried]_vars

\* During one drag, snapshots giving the dragged task another status were
\* overridden both when the merge replaced the list and when it merged.
C26_Witness ==
  /\ bd.kind = "tasks"
  /\ activeId # 0
  /\ bd.remote \notin {"none", Carried}
  /\ {"new", "merged"} \subseteq bd.paths

\* C27: tasksAreEqual(a, b) is true exactly when a and b match in each of
\* the fourteen user-visible fields; in particular two records that differ
\* only in updated_at and created_at are equal.
C27_EqualityContract ==
  eq.done =>
    /\ eq.result = FieldEqual(eq.a, eq.b)
    /\ (\A f \in TaskFields \ {"updated_at", "created_at"} :
          eq.a[f] = eq.b[f]) => eq.result

\* Two records that differ in updated_at and in created_at were found equal.
C27_Witness ==
  /\ eq.done
  /\ eq.a.updated_at # eq.b.updated_at
  /\ eq.a.created_at # eq.b.created_at
  /\ eq.result

\* C28: merging lists of the same length that differ somewhere gives a new
\* list with the ids of the incoming list in its order, whose element is the
\* current object where a current task of that id is field-equal and the
\* incoming object where it is not or where there is none, so that it is
\* field-equal to the incoming list position by position.
C28_MergeKeepsUnchangedObjects ==
  (/\ mg.done
   /\ Len(mg.A) = Len(mg.B)
   /\ \E k \in 1..Len(mg.B) : Counterpart(mg.A, mg.B[k]) = 0)
  => /\ mg.out.list = "merged"
     /\ Len(mg.out.items) = Len(mg.B)
     /\ \A k \in 1..Len(mg.B) :
          LET j == Counterpart(mg.A, mg.B[k])
          IN  /\ mg.out.items[k].id = mg.B[k].id
              /\ mg.out.from[k] = j
              /\ mg.out.items[k] = IF j # 0 THEN mg.A[j] ELSE mg.B[k]
              /\ FieldEqual(mg.out.items[k], mg.B[k])

\* Of two incoming tasks one changed its title and the other only its
\* updated_at: the merged list holds the incoming object of the first and
\* the current object of the second.
C28_Witness ==
  /\ mg.done
  /\ mg.out.list = "merged"
  /\ Len(mg.B) = 2
  /\ \E k \in 1..2 :
       /\ mg.out.from[k] # 0
       /\ mg.out.items[k] # mg.B[k]
       /\ mg.out.from[3 - k] = 0
       /\ \E j \in 1..2 : /\ mg.A[j].id = mg.B[3 - k].id
                          /\ mg.A[j].title # mg.B[3 - k].title

\* C29: a drag that ends over a target issues one update call, for the
\* dragged task with its local status; a snapshot issues no update call and
\* leaves the status the call of the drag in progress will carry.
C29_DragPersistsIndependently ==
  [][/\ DragEnd(TRUE) =>
          /\ bd'.call.issued
          /\ bd'.call.id = activeId
          /\ bd'.call.status = Carried
     /\ bd'.kind = "tasks" =>
          /\ ~bd'.call.issued
          /\ activeId # 0 => Carried' = Carried]_vars

\* C30: on a snapshot the detail task stays the object it is when the
\* snapshot has no task of its id or has a field-equal one, becomes the
\* incoming object when a user-visible field differs, and stays null when
\* no detail task is open.
C30_DetailReconciled ==
  [][bd'.kind = "tasks" =>
       /\ ~detailTask.has => (detailTask' = NoDetail /\ bd'.detail = "none")
       /\ (detailTask.has /\ ~bd'.incoming.has)
          => (detailTask' = detailTask /\ bd'.detail = "kept")
       /\ (bd'.incoming.has /\ FieldEqual(detailTask.task, bd'.incoming.task))
          => (detailTask' = detailTask /\ bd'.detail = "kept")
       /\ (bd'.incoming.has /\ ~FieldEqual(detailTask.task, bd'.incoming.task))
          => /\ detailTask' = bd'.incoming
             /\ bd'.detail = "replaced"]_vars

\* A snapshot came with the task of the detail view changed in updated_at
\* only, the list took the incoming object and the detail view kept its own.
C30_Witness ==
  /\ bd.kind = "tasks"
  /\ bd.detail = "kept"
  /\ bd.incoming.has
  /\ bd.incoming.task.updated_at # detailTask.task.updated_at
  /\ Find(tasks, detailTask.task.id) # 0
  /\ tasks[Find(tasks, detailTask.task.id)] = bd.incoming.task

\* The place of an event in the write order of a tick.
Rank(e) == IF e = "tasks" THEN 1 ELSE IF e = "watcher" THEN 2 ELSE 3

C32_FailedColdStartRecovers ==
  /\ []((wr.kind = "start" /\ ~wr.readOk /\ ~wr.closedBefore)
          => ~isClosed[wr.conn] /\ pollInterval[wr.conn])
  /\ [][\A c \in Conns, k \in 1..MaxInflight :
          (/\ TickResume(c, k)
           /\ inflight[c][k].ok
           /\ ~isClosed[c] /\ ctrl[c] = "readable"
           /\ ~startRead[c].ok
           /\ first[c] = <<"connected">>)
          => /\ wr'.ev = <<"tasks", "watcher", "heartbeat">>
             /\ sentT'[c].has /\ sentW'[c].has]_vars

\* C33: a poll timer is set only by a start() that finds its connection
\* open; a start() that resumes after the abort signal or cancel() arrived
\* returns without setting the timer; a request refused with 499 has no
\* stream and no timer.
C33_NoTimerOnClosedConnection ==
  /\ [](\A c \in Conns :
          pc[c] = "refused"
            => /\ ~pollInterval[c] /\ first[c] = <<>> /\ inflight[c] = <<>>
               /\ ~startRead[c].ok /\ ~sentT[c].has /\ ~sentW[c].has)
  /\ [][\A c \in Conns :
          /\ (~pollInterval[c] /\ pollInterval'[c])
               => (StartResume(c) /\ ~isClosed[c] /\ ~isClosed'[c])
          /\ (StartResume(c) /\ torn[c])
               => (~pollInterval'[c] /\ pc'[c] = "returned")]_vars

\* The abort signal or cancel() arrived during a cold-start sync whose read
\* succeeded, and start() returned with nothing written and no timer set.
C33_Witness ==
  /\ wr.kind = "start"
  /\ wr.readOk
  /\ wr.ev = <<>>
  /\ torn[wr.conn]
  /\ pc[wr.conn] = "returned"
  /\ ~pollInterval[wr.conn]

\* C34: with `enabled` true, a render of the host component leaves a
\* connected session connected, on the stream it holds.
C34_RenderKeepsStream ==
  [][(cl'.kind = "render" /\ connectionState = "connected")
       => /\ connectionState' = "connected"
          /\ eventSourceRef' = eventSourceRef
          /\ es'[eventSourceRef].state = "greeted"]_vars

\* The status the board shows for the task of the update call in flight,
\* "none" when it shows no such task.
Dropped(list) ==
  IF patch.issued /\ Find(list, patch.id) # 0
    THEN list[Find(list, patch.id)].status
    ELSE "none"

\* C35: after a card was dropped over a target with another status than the
\* one it was picked up with, a snapshot that arrives while the update call
\* of the drop is in flight does not put the task back in the status it was
\* picked up with.
C35_DropNotReverted ==
  [][(/\ bd'.kind = "tasks"
      /\ patch.issued /\ patch' = patch
      /\ patch.status # grabbed
      /\ Dropped(tasks) = patch.status)
       => Dropped(tasks') # grabbed]_vars

\* The session of the board is connected, no card is dragged and no call of
\* the board is in flight.
Quiet ==
  /\ link \in {"start", "polling"}
  /\ activeId = 0
  /\ ~patch.issued
  /\ ~fetching

\* The board shows the tasks the store holds, with the user-visible fields
\* the store gives them.
Agree ==
  LET S == Shown(getAllTasks(rows))
  IN  /\ \A k \in 1..Len(S) :
           Find(tasks, S[k].id) # 0
             /\ FieldEqual(tasks[Find(tasks, S[k].id)], S[k])
      /\ \A k \in 1..Len(tasks) : Find(S, tasks[k].id) # 0

C37_CounterChanges ==
  /\ [](reconnectAttempts \in 0..maxReconnectAttempts)
  /\ [][/\ reconnectAttempts' # reconnectAttempts
             => \/ /\ cl'.kind = "error"
                   /\ reconnectAttempts' = reconnectAttempts + 1
                   /\ reconnectTimeoutRef' # 0
                   /\ timers'[reconnectTimeoutRef'].pending
                   /\ ~timers[reconnectTimeoutRef'].pending
                \/ /\ cl'.kind = "connected"
                   /\ reconnectAttempts' = 0
        /\ cl'.kind \in {"mount", "render", "toggle", "connect", "disconnect",
                         "timer", "tasks", "watcher"}
             => reconnectAttempts' = reconnectAttempts]_vars

\* With `enabled` toggled after the last attempt was used up, the counter is
\* still at the maximum.
C37_Witness ==
  /\ cl.kind = "toggle"
  /\ cl.before = maxReconnectAttempts
  /\ reconnectAttempts = maxReconnectAttempts

\* C38: a session whose state is connected holds a stream that is open and
\* has delivered `connected`, opened by a render with `enabled` true, and its
\* attempt counter is 0.
C38_ConnectedMeansGreeted ==
  connectionState = "connected"
    => /\ eventSourceRef # 0
       /\ es[eventSourceRef].state = "greeted"
       /\ es[eventSourceRef].en
       /\ reconnectAttempts = 0

\* A session connected again after transport errors, on the stream a
\* reconnect timeout opened.
C38_Witness ==
  /\ connectionState = "connected"
  /\ cl.kind = "connected"
  /\ cl.before > 0
  /\ cl.id = eventSourceRef

\* C39: whenever no start_task or end_task request is between its read and
\* its write, active_task_ids holds no id twice and holds exactly the ids
\* started and not ended since, in the order the requests wrote.
C39_ActiveIdsIsASet ==
  (\A r \in Posts : posts[r].pc = "idle")
    => /\ \A j, k \in 1..Len(active_task_ids) :
            j # k => active_task_ids[j] # active_task_ids[k]
       /\ {active_task_ids[k] : k \in 1..Len(active_task_ids)} = ledger

====
